---- MODULE Spec2Model ----
(***************************************************************************)
(* NeuroLingo: the background service's connection to the Neuro API        *)
(* (src/src/neuro-connection.js), the routing of agent actions to the      *)
(* Duolingo tabs and of their results back (message-handler.js), as state  *)
(* machines over the browser events that drive them.                       *)
(***************************************************************************)
EXTENDS Integers, Sequences, FiniteSets, TLC

(* ------------------------------ bounds -------------------------------- *)

\* onStartup events delivered to the service worker (each runs initialize()).
MaxStartup == 1
\* reconnectAttempts is unbounded in the code; scheduleReconnect is not taken beyond this.
AttemptsCap == 6
\* the history counters of notifications stop counting here.
MaxNotifs == 2
\* action frames the agent sends; their ids are 1..MaxActions, each used once.
MaxActions == 2
\* Duolingo tabs chrome.tabs.query can return.
MaxTabs == 2
\* reconnectAttempts allowed while frames are sent and actions are routed.
RouteAttemptsCap == 1
\* consecutive connect() calls that throw, when only the backoff is followed.
MaxBackoffAttempts == 120
\* the clock (Date.now(), in ms) advances in steps of TimeStep up to MaxNow.
TimeStep == 5000
MaxNow == 40000
\* addLogEntry calls followed, and popup ports open at a time.
MaxLogged == 203
MaxPorts == 2
\* the content script: its clock advances in steps of PageStep ms (no less
\* than the delay of any of its timers); questions a page shows; page
\* changes followed; observer callbacks and register promises pending at a time.
PageStep == 1000
MaxQuestions == 2
MaxChanges == 2
MaxPending == 1

(* -------------------------- program constants ------------------------- *)

MAX_RECONNECT_ATTEMPTS == 5
RECONNECT_INTERVAL == 10000
MAX_RECONNECT_INTERVAL == 60000
\* Math.pow(1.5, Math.min(this.reconnectAttempts - 1, 8)): the growth factor
\* 1.5 as a fraction, and the largest exponent.
GrowthNum == 3
GrowthDen == 2
BackoffExponentCap == 8
HEARTBEAT_INTERVAL == 15000
GAME_NAME == "Neuro-Duolingo Game"
maxCacheSize == 200
DEBOUNCE_DELAY == 1000
REGISTER_RETRY_DELAY == 1000
CONTEXT_CHANGE_THRESHOLD == 5000
ACTION_REGISTRATION_THRESHOLD == 10000
ANSWER_COOLDOWN_PERIOD == 3000

\* Socket objects whose handlers are bound to the session and that can still
\* deliver events: one per initialize() call at most, since a reconnect timer
\* only ever replaces a socket that closed.
MaxSockets == MaxStartup + 1
Sockets == 1..MaxSockets

\* readyState of a socket object. "aborting" is CLOSING reached from
\* CONNECTING (close() before the open), "closing" is CLOSING reached from OPEN.
ReadyStates == {"connecting", "open", "closing", "aborting", "closed"}

ActionIds == 1..MaxActions

\* The message of an action/result frame tells what produced it: the three
\* texts handleAction fabricates, or a result a content script reported
\* (success true / false).
ResultKinds == {"no_tab", "comm_fail", "internal", "tab_ok", "tab_fail"}
SyntheticKinds == {"no_tab", "comm_fail", "internal"}

VARIABLES
    \* fields of the NeuroConnection object
    ws,                 \* 0 is null, else the socket held in this.ws
    isConnected,
    reconnectAttempts,
    reconnectTimer,     \* "null", or the state of the timer the handle names: "pending" / "fired"
    connectionLost,
    heartbeatInterval,  \* TRUE when this.heartbeatInterval holds a handle
    \* the runtime
    sock,               \* readyState of every socket slot
    timersPending,      \* setTimeout timers armed by scheduleReconnect and not yet fired or cleared
    intervalsActive,    \* setInterval timers created by startHeartbeat and not cleared
    lastFrame,          \* command of the last frame written to a socket ("none" before any)
    wire,               \* action/result frames written to a socket, counted by id and kind
    firstFrame,         \* per live socket: command of the first frame written to it ("none" before any)
    startupFrames,      \* per live socket: startup frames written to it (counted up to 2)
    \* MessageHandler.handleAction calls in progress and the content scripts
    req,                \* per action id: where its handleAction call stands
    inflight,           \* neuro_action_result messages on their way to the background
    lastSend,           \* outcome of the last sendToNeuro call
    \* history
    startups,           \* onStartup events so far
    disconnectCalled,   \* disconnect() ran and initialize() has not run since
    lostNotifs,         \* calls of showDisconnectionNotification
    restoredNotifs,     \* calls of showReconnectionNotification
    cycles,             \* consecutive open-then-close cycles with nothing else in between
    lastEvent,          \* the handler that ran last
    rearmed,            \* the last scheduleReconnect cleared a timer that was still pending
    connectBit,         \* flips on every call of connect()
    delay,              \* delay of the last setTimeout call, in 1/DelayUnit ms (0 before any)
    statusLogs,         \* the logNeuroConnection calls of the handler that ran last
    neuroConnected,     \* popupManager.statusCache.neuroConnected
    \* the liveness monitor
    now,                \* Date.now()
    lastMessageTime,    \* this.lastMessageTime (0 is null)
    \* inbound messages
    received,           \* the last message event handleMessage ran on
    \* the popup manager
    popup,              \* logCache, isPopupOpen, popupPorts and the onConnect listeners
    feed,               \* messages posted to a port in the dispatch of its connect event
    classPopup,         \* the PopupManager of popup-manager.js given the same calls
    newLog,             \* popups the last addLogEntry of either manager reached
    \* the content script of one Duolingo tab
    page,               \* its variables, its timers and the page it watches
    lastAction          \* what became of the neuro_action message it handled last

connVars == <<ws, isConnected, reconnectAttempts, reconnectTimer, connectionLost,
              heartbeatInterval, sock, timersPending, intervalsActive, lastFrame, wire,
              firstFrame, startupFrames>>
routeVars == <<req, inflight>>
histVars == <<startups, lostNotifs, restoredNotifs>>
obsVars == <<disconnectCalled, cycles, lastEvent, rearmed, connectBit, lastSend, delay,
             statusLogs, neuroConnected>>
\* State that only some of the specifications follow; the others leave it
\* as it is.
popupVars == <<popup, feed, classPopup, newLog>>
pageVars == <<page, lastAction>>
auxVars == <<now, lastMessageTime, received, popupVars, pageVars>>
vars == <<connVars, routeVars, histVars, obsVars, auxVars>>

\* The connection and the runtime resources it owns, as one record the
\* methods below transform. statusLogs collects the logNeuroConnection calls a
\* method makes; it is empty when the method starts.
Conn == [ws |-> ws, isConnected |-> isConnected,
         reconnectAttempts |-> reconnectAttempts, reconnectTimer |-> reconnectTimer,
         connectionLost |-> connectionLost, heartbeatInterval |-> heartbeatInterval,
         sock |-> sock, timersPending |-> timersPending,
         intervalsActive |-> intervalsActive, lastFrame |-> lastFrame,
         wire |-> wire, firstFrame |-> firstFrame, startupFrames |-> startupFrames,
         lostNotifs |-> lostNotifs, restoredNotifs |-> restoredNotifs,
         statusLogs |-> <<>>]

Becomes(c) ==
    /\ ws' = c.ws
    /\ isConnected' = c.isConnected
    /\ reconnectAttempts' = c.reconnectAttempts
    /\ reconnectTimer' = c.reconnectTimer
    /\ connectionLost' = c.connectionLost
    /\ heartbeatInterval' = c.heartbeatInterval
    /\ sock' = c.sock
    /\ timersPending' = c.timersPending
    /\ intervalsActive' = c.intervalsActive
    /\ lastFrame' = c.lastFrame
    /\ wire' = c.wire
    /\ firstFrame' = c.firstFrame
    /\ startupFrames' = c.startupFrames
    /\ lostNotifs' = c.lostNotifs
    /\ restoredNotifs' = c.restoredNotifs

Min(a, b) == IF a < b THEN a ELSE b

RECURSIVE Pow(_, _)
Pow(b, k) == IF k = 0 THEN 1 ELSE b * Pow(b, k - 1)

\* Delays are counted in 1/DelayUnit ms, which makes every value of
\* RECONNECT_INTERVAL * 1.5^k with k <= BackoffExponentCap a whole number.
DelayUnit == Pow(GrowthDen, BackoffExponentCap)

ReconnectDelay_NoCeiling(attempts) ==
    LET k == Min(attempts - 1, BackoffExponentCap)
    IN RECONNECT_INTERVAL * Pow(GrowthNum, k) * Pow(GrowthDen, BackoffExponentCap - k)

ReconnectDelay_Doubling(attempts) ==
    LET k == Min(attempts - 1, BackoffExponentCap)
    IN Min(MAX_RECONNECT_INTERVAL * DelayUnit,
           RECONNECT_INTERVAL * Pow(GrowthDen, k) * DelayUnit)

\* The delay scheduleReconnect computes once this.reconnectAttempts has been
\* incremented to `attempts`.
ReconnectDelay(attempts) ==
    LET k == Min(attempts - 1, BackoffExponentCap)
    IN Min(MAX_RECONNECT_INTERVAL * DelayUnit,
           RECONNECT_INTERVAL * Pow(GrowthNum, k) * Pow(GrowthDen, BackoffExponentCap - k))

\* this.ws && this.ws.readyState === WebSocket.OPEN
wsOpen(c) == c.ws # 0 /\ c.sock[c.ws] = "open"

(* --------------------------- NeuroConnection -------------------------- *)

stopHeartbeat(c) ==
    IF c.heartbeatInterval
    THEN [c EXCEPT !.intervalsActive = c.intervalsActive - 1, !.heartbeatInterval = FALSE]
    ELSE c

startHeartbeat_NoStop(c) ==
    [c EXCEPT !.intervalsActive = c.intervalsActive + 1, !.heartbeatInterval = TRUE]

startHeartbeat(c) ==
    LET d == stopHeartbeat(c)
    IN [d EXCEPT !.intervalsActive = d.intervalsActive + 1, !.heartbeatInterval = TRUE]

\* What the runtime keeps of the frames written to socket s.
Written(c, s, command) ==
    [c EXCEPT !.lastFrame = command,
              !.firstFrame[s] = IF @ = "none" THEN command ELSE @,
              !.startupFrames[s] = IF command = "startup" THEN Min(@ + 1, 2) ELSE @]

sendStartup(c) ==
    IF wsOpen(c) THEN Written(c, c.ws, "startup") ELSE c

scheduleReconnect_NoClear(c) ==
    [c EXCEPT !.reconnectAttempts = c.reconnectAttempts + 1,
              !.timersPending = c.timersPending + 1,
              !.reconnectTimer = "pending"]

scheduleReconnect(c) ==
    LET d == IF c.reconnectTimer = "pending"
             THEN [c EXCEPT !.timersPending = c.timersPending - 1]
             ELSE c   \* null, or clearTimeout of a timer that has fired
    IN [d EXCEPT !.reconnectAttempts = d.reconnectAttempts + 1,
                 !.timersPending = d.timersPending + 1,
                 !.reconnectTimer = "pending"]

showDisconnectionNotification(c) ==
    [c EXCEPT !.lostNotifs = Min(c.lostNotifs + 1, MaxNotifs)]

showReconnectionNotification(c) ==
    [c EXCEPT !.restoredNotifs = Min(c.restoredNotifs + 1, MaxNotifs)]

\* this.popupManager.logNeuroConnection(connected)
logNeuroConnection(c, connected) ==
    [c EXCEPT !.statusLogs = Append(@, IF connected THEN "connected" ELSE "disconnected")]

\* statusCache.neuroConnected once the logNeuroConnection calls in logs have
\* been made, every one of which assigns it.
StatusAfter(cached, logs) ==
    IF logs = <<>> THEN cached ELSE logs[Len(logs)] = "connected"

FreeSlot(c) == CHOOSE s \in Sockets :
    /\ c.sock[s] = "closed"
    /\ \A t \in Sockets : c.sock[t] = "closed" => s <= t

\* connect(): new WebSocket(url) either returns a socket in CONNECTING with
\* the session's handlers bound, or throws.
connect(c, throws) ==
    IF throws
    THEN scheduleReconnect(c)
    ELSE [c EXCEPT !.ws = FreeSlot(c), !.sock[FreeSlot(c)] = "connecting"]

handleOpen_KeepAttempts(c) ==
    LET c1 == [c EXCEPT !.isConnected = TRUE, !.connectionLost = FALSE]
        c2 == sendStartup(logNeuroConnection(c1, TRUE))
        c3 == IF c2.reconnectAttempts > 1 THEN showReconnectionNotification(c2) ELSE c2
    IN startHeartbeat(c3)

\* (this.lastMessageTime = Date.now() is followed by OpenBeat.)
handleOpen(c) ==
    LET c1 == [c EXCEPT !.isConnected = TRUE, !.reconnectAttempts = 0,
                        !.connectionLost = FALSE]
        c2 == sendStartup(logNeuroConnection(c1, TRUE))
        c3 == IF c2.reconnectAttempts > 1 THEN showReconnectionNotification(c2) ELSE c2
    IN startHeartbeat(c3)

handleClose_StopAtMax(c) ==
    LET wasConnected == c.isConnected
        c0 == stopHeartbeat([c EXCEPT !.isConnected = FALSE])
        c1 == IF wasConnected THEN logNeuroConnection(c0, FALSE) ELSE c0
        c2 == IF wasConnected /\ ~c1.connectionLost
                 /\ c1.reconnectAttempts >= MAX_RECONNECT_ATTEMPTS
              THEN showDisconnectionNotification([c1 EXCEPT !.connectionLost = TRUE])
              ELSE c1
    IN IF c2.reconnectAttempts >= MAX_RECONNECT_ATTEMPTS THEN c2 ELSE scheduleReconnect(c2)

handleClose_LogAlways(c) ==
    LET wasConnected == c.isConnected
        c0 == stopHeartbeat([c EXCEPT !.isConnected = FALSE])
        c1 == logNeuroConnection(c0, FALSE)
        c2 == IF wasConnected /\ ~c1.connectionLost
                 /\ c1.reconnectAttempts >= MAX_RECONNECT_ATTEMPTS
              THEN showDisconnectionNotification([c1 EXCEPT !.connectionLost = TRUE])
              ELSE c1
    IN scheduleReconnect(c2)

handleClose(c) ==
    LET wasConnected == c.isConnected
        c0 == stopHeartbeat([c EXCEPT !.isConnected = FALSE])
        c1 == IF wasConnected THEN logNeuroConnection(c0, FALSE) ELSE c0
        c2 == IF wasConnected /\ ~c1.connectionLost
                 /\ c1.reconnectAttempts >= MAX_RECONNECT_ATTEMPTS
              THEN showDisconnectionNotification([c1 EXCEPT !.connectionLost = TRUE])
              ELSE c1
    IN scheduleReconnect(c2)

\* ws.close() on the socket held in this.ws
wsClose(st) ==
    CASE st = "connecting" -> "aborting"
      [] st = "open" -> "closing"
      [] OTHER -> st

disconnect_KeepTimer(c) ==
    LET c1 == stopHeartbeat(c)
        c3 == IF c1.ws # 0
              THEN [c1 EXCEPT !.sock[c1.ws] = wsClose(c1.sock[c1.ws]), !.ws = 0]
              ELSE c1
    IN [c3 EXCEPT !.isConnected = FALSE]

disconnect(c) ==
    LET c1 == stopHeartbeat(c)
        c2 == IF c1.reconnectTimer # "null"
              THEN [c1 EXCEPT !.timersPending =
                                 IF c1.reconnectTimer = "pending"
                                 THEN c1.timersPending - 1 ELSE c1.timersPending,
                              !.reconnectTimer = "null"]
              ELSE c1
        c3 == IF c2.ws # 0
              THEN [c2 EXCEPT !.sock[c2.ws] = wsClose(c2.sock[c2.ws]), !.ws = 0]
              ELSE c2
    IN [c3 EXCEPT !.isConnected = FALSE]

\* A frame handed to sendToNeuro. id and kind are 0 and "none" unless the
\* frame is an action/result; game is CONFIG.GAME_NAME, as in every frame
\* the extension builds, unless the caller left it out ("").
Frame(command, id, kind) ==
    [command |-> command, id |-> id, kind |-> kind, game |-> GAME_NAME]
WithoutGame(msg) == [msg EXCEPT !.game = ""]
ResultFrame(id, kind) == Frame("action/result", id, kind)

\* this.ws.send(JSON.stringify(msg))
wsSend(c, msg) ==
    [Written(c, c.ws, msg.command) EXCEPT
        !.wire = IF msg.command = "action/result" /\ msg.id \in ActionIds
                 THEN [c.wire EXCEPT ![msg.id][msg.kind] = @ + 1]
                 ELSE c.wire]

\* sendToNeuro(msg): the value returned ("true" / "false"), or "throws" when
\* this.ws.readyState is read on a null this.ws.
\* game is the game field of the frame written ("none" when none is).
sendToNeuro(c, msg) ==
    IF c.isConnected /\ c.ws = 0
    THEN [c |-> c, ret |-> "throws", wrote |-> FALSE, game |-> "none"]
    ELSE IF c.isConnected /\ c.sock[c.ws] = "open"
         THEN IF msg.command = ""
              THEN [c |-> c, ret |-> "false", wrote |-> FALSE, game |-> "none"]
              ELSE LET filled == IF msg.game = "" THEN [msg EXCEPT !.game = GAME_NAME]
                                 ELSE msg
                   IN [c |-> wsSend(c, filled), ret |-> "true", wrote |-> TRUE,
                       game |-> filled.game]
         ELSE [c |-> c, ret |-> "false", wrote |-> FALSE, game |-> "none"]

heartbeatTick_AtThreshold(c, t, last) ==
    IF c.isConnected /\ wsOpen(c)
    THEN LET timeSinceLastMessage == IF last # 0 THEN t - last ELSE 0
         IN IF timeSinceLastMessage >= HEARTBEAT_INTERVAL
            THEN [c |-> wsSend(c, Frame("ping", 0, "none")), wrote |-> TRUE]
            ELSE [c |-> c, wrote |-> FALSE]
    ELSE [c |-> c, wrote |-> FALSE]

\* The setInterval callback of startHeartbeat, run at time t with
\* this.lastMessageTime = last.
heartbeatTick(c, t, last) ==
    IF c.isConnected /\ wsOpen(c)
    THEN LET timeSinceLastMessage == IF last # 0 THEN t - last ELSE 0
         IN IF timeSinceLastMessage > HEARTBEAT_INTERVAL
            THEN [c |-> wsSend(c, Frame("ping", 0, "none")), wrote |-> TRUE]
            ELSE [c |-> c, wrote |-> FALSE]
    ELSE [c |-> c, wrote |-> FALSE]

(* --------------------------- MessageHandler --------------------------- *)

\* The action names the content script's switch routes to a handler.
SupportedNames == {"submit_answer", "get_question_context", "continue_lesson"}
\* The names the agent draws from: one the content script supports, one it does not.
AgentNames == {"submit_answer", "unknown_action"}
\* The commands of the frames collaborators hand to sendToNeuro; "" is a
\* frame whose command is missing or empty.
Commands == {"", "context"}

NoRequest == [phase |-> "none", name |-> "none", tabs |-> 0, idx |-> 0,
              messagesSent |-> 0, msgs |-> 0, old |-> FALSE]

\* handleAction returned: its locals are gone; the number of tabs it
\* messaged and the number of sends that were accepted stay on record, and
\* so does `old`: the connection has reopened since the request arrived.
Done(q) == [NoRequest EXCEPT !.phase = "done", !.msgs = q.msgs,
                             !.messagesSent = q.messagesSent, !.old = q.old]

\* A sendToNeuro call inside handleAction's try block: when it throws, the
\* catch block sends the "Internal error" result through sendToNeuro again.
sendInTry(c, id, kind) ==
    LET r == sendToNeuro(c, ResultFrame(id, kind))
    IN IF r.ret = "throws" THEN sendToNeuro(r.c, ResultFrame(id, "internal")) ELSE r

\* handleAction after `await chrome.tabs.query` returned n tabs: with no tab
\* the failure result is sent and the call returns; else the loop starts and
\* the first tab is messaged.
afterQuery_NoReturn(c, q, id, n) ==
    IF n = 0
    THEN LET r == sendInTry(c, id, "no_tab")
             r2 == IF r.ret = "throws" THEN r ELSE sendInTry(r.c, id, "comm_fail")
         IN [c |-> r2.c, q |-> Done(q), sent |-> TRUE,
             ret |-> r2.ret, wrote |-> r2.wrote]
    ELSE [c |-> c, q |-> [q EXCEPT !.phase = "send", !.tabs = n, !.idx = 1, !.msgs = 1],
          sent |-> FALSE, ret |-> "none", wrote |-> FALSE]

afterQuery(c, q, id, n) ==
    IF n = 0
    THEN LET r == sendInTry(c, id, "no_tab")
         IN [c |-> r.c, q |-> Done(q), sent |-> TRUE,
             ret |-> r.ret, wrote |-> r.wrote]
    ELSE [c |-> c, q |-> [q EXCEPT !.phase = "send", !.tabs = n, !.idx = 1, !.msgs = 1],
          sent |-> FALSE, ret |-> "none", wrote |-> FALSE]

\* handleAction after `await chrome.tabs.sendMessage` to tab q.idx settled:
\* count an accepted send, message the next tab, and after the last one send
\* the failure result when no send was accepted.
afterTabSend_FailOnAnyReject(c, q, id, accepted) ==
    LET q1 == IF accepted THEN [q EXCEPT !.messagesSent = q.messagesSent + 1] ELSE q
    IN IF q1.idx < q1.tabs
       THEN [c |-> c, q |-> [q1 EXCEPT !.idx = q1.idx + 1, !.msgs = q1.msgs + 1],
             sent |-> FALSE, ret |-> "none", wrote |-> FALSE]
       ELSE IF q1.messagesSent < q1.tabs
            THEN LET r == sendInTry(c, id, "comm_fail")
                 IN [c |-> r.c, q |-> Done(q1), sent |-> TRUE,
                     ret |-> r.ret, wrote |-> r.wrote]
            ELSE [c |-> c, q |-> Done(q1),
                  sent |-> FALSE, ret |-> "none", wrote |-> FALSE]

afterTabSend(c, q, id, accepted) ==
    LET q1 == IF accepted THEN [q EXCEPT !.messagesSent = q.messagesSent + 1] ELSE q
    IN IF q1.idx < q1.tabs
       THEN [c |-> c, q |-> [q1 EXCEPT !.idx = q1.idx + 1, !.msgs = q1.msgs + 1],
             sent |-> FALSE, ret |-> "none", wrote |-> FALSE]
       ELSE IF q1.messagesSent = 0
            THEN LET r == sendInTry(c, id, "comm_fail")
                 IN [c |-> r.c, q |-> Done(q1), sent |-> TRUE,
                     ret |-> r.ret, wrote |-> r.wrote]
            ELSE [c |-> c, q |-> Done(q1),
                  sent |-> FALSE, ret |-> "none", wrote |-> FALSE]

\* What the content script's onMessage listener sends back on a neuro_action
\* message: a result that says success, one that says failure, or none when
\* submit_answer throws before it sends one.
TabOutcomes == {"tab_ok", "tab_fail", "none"}

\* The number of neuro_action_result messages the listener sends back.
contentResults(name, outcome) ==
    IF name \in SupportedNames /\ outcome # "none" THEN 1 ELSE 0

handleActionResult_Drop(c, id, kind) == [c |-> c, ret |-> "none", wrote |-> FALSE]

handleActionResult_ForwardWithoutId(c, id, kind) == sendToNeuro(c, ResultFrame(id, kind))

\* handleActionResult(message): a result with an id goes to sendToNeuro.
handleActionResult(c, id, kind) ==
    IF id = 0
    THEN [c |-> c, ret |-> "none", wrote |-> FALSE]
    ELSE sendToNeuro(c, ResultFrame(id, kind))

\* The message events of a socket: data that does not decode to a frame, and
\* frames by their command ("other" is any command but action and status).
\* An action frame carries data.id = id, 0 when data or data.id is absent.
InboundKinds == {"malformed", "status", "other", "action"}

NoMessage == [kind |-> "none", id |-> 0, dispatched |-> FALSE, afterBad |-> FALSE]

handleActionEntry_ReplyWithoutId(c, rq, id, name) ==
    IF id = 0
    THEN [c |-> sendToNeuro(c, ResultFrame(0, "internal")).c, rq |-> rq]
    ELSE [c |-> c, rq |-> [rq EXCEPT ![id] = [NoRequest EXCEPT !.phase = "query",
                                                               !.name = name]]]

\* handleAction(msg) up to its first await: without data.id it returns at
\* once, else it calls chrome.tabs.query and suspends.
handleActionEntry(c, rq, id, name) ==
    IF id = 0
    THEN [c |-> c, rq |-> rq]
    ELSE [c |-> c, rq |-> [rq EXCEPT ![id] = [NoRequest EXCEPT !.phase = "query",
                                                               !.name = name]]]

\* handleStatus(msg): logs.
handleStatus(c) == c

process_ReplyToUnknown(c, rq, kind, id, name) ==
    CASE kind = "action" -> handleActionEntry(c, rq, id, name)
      [] kind = "status" -> [c |-> handleStatus(c), rq |-> rq]
      [] OTHER -> [c |-> sendToNeuro(c, Frame("error", 0, "none")).c, rq |-> rq]

\* MessageHandler.process(msg): the switch on msg.command.
process(c, rq, kind, id, name) ==
    CASE kind = "action" -> handleActionEntry(c, rq, id, name)
      [] kind = "status" -> [c |-> handleStatus(c), rq |-> rq]
      [] OTHER -> [c |-> c, rq |-> rq]

handleMessage_DispatchAnyway(c, rq, kind, id, name) ==
    LET r == process(c, rq, kind, id, name)
    IN [c |-> r.c, rq |-> r.rq, dispatched |-> TRUE]

\* handleMessage(event): JSON.parse throws on data that does not decode and
\* the catch block logs; a decoded frame is dispatched as a neuro-message
\* event, whose listener calls MessageHandler.process.
\* (this.lastMessageTime = Date.now() is followed by MessageBeat.)
handleMessage(c, rq, kind, id, name) ==
    IF kind = "malformed"
    THEN [c |-> c, rq |-> rq, dispatched |-> FALSE]
    ELSE LET r == process(c, rq, kind, id, name)
         IN [c |-> r.c, rq |-> r.rq, dispatched |-> TRUE]

\* What lastSend records of a sendToNeuro call made in state c.
\* local is the type of the runtime message behind the call ("none" for a
\* call made with a frame of the caller).
SendRecord(c, command, r) ==
    [ret |-> r.ret, wrote |-> r.wrote, command |-> command,
     connected |-> c.isConnected,
     ready |-> IF c.ws = 0 THEN "null" ELSE c.sock[c.ws],
     game |-> IF r.wrote THEN r.game ELSE "none", local |-> "none",
     log |-> "none", response |-> "none"]

NoSend == [ret |-> "none", wrote |-> FALSE, command |-> "none",
           connected |-> FALSE, ready |-> "null", game |-> "none", local |-> "none",
           log |-> "none", response |-> "none"]

\* The types of runtime messages: the four that are forwarded to the agent,
\* and one that is not.
LocalTypes == {"neuro_context", "neuro_action_result", "neuro_register_actions",
               "neuro_force_action", "neuro_log"}

\* The id of an action whose routing is not followed in req: the results
\* written with it are not counted in wire.
UntrackedId == MaxActions + 1

\* handleContextMessage, handleRegisterActions, handleForceAction: a message
\* that passes the format check is wrapped in a frame with the given command.
forward(c, command, wellFormed) ==
    IF wellFormed
    THEN sendToNeuro(c, Frame(command, 0, "none"))
    ELSE [c |-> c, ret |-> "none", wrote |-> FALSE, game |-> "none"]

handleRuntimeMessage_ForceAsRegister(c, type, wellFormed) ==
    CASE type = "neuro_context" -> forward(c, "context", wellFormed)
      [] type = "neuro_action_result" ->
            handleActionResult(c, IF wellFormed THEN UntrackedId ELSE 0, "tab_ok")
      [] type = "neuro_register_actions" -> forward(c, "actions/register", wellFormed)
      [] type = "neuro_force_action" -> forward(c, "actions/register", wellFormed)
      [] OTHER -> [c |-> c, ret |-> "none", wrote |-> FALSE, game |-> "none"]

\* handleRuntimeMessage(message): the switch on message.type, inside a try
\* block whose catch logs what a handler throws.
handleRuntimeMessage(c, type, wellFormed) ==
    CASE type = "neuro_context" -> forward(c, "context", wellFormed)
      [] type = "neuro_action_result" ->
            handleActionResult(c, IF wellFormed THEN UntrackedId ELSE 0, "tab_ok")
      [] type = "neuro_register_actions" -> forward(c, "actions/register", wellFormed)
      [] type = "neuro_force_action" -> forward(c, "actions/force", wellFormed)
      [] OTHER -> [c |-> c, ret |-> "none", wrote |-> FALSE, game |-> "none"]

\* The level of the entry the handler of a runtime message adds to the popup
\* log once its sendToNeuro call has returned ret: handleRegisterActions and
\* handleForceAction log by the value returned; handleContextMessage calls
\* logContext and handleActionResult calls logActionResult (an info entry for
\* a result with success true) whatever was returned. A message that fails
\* the format check, and a call that throws into handleRuntimeMessage's
\* catch block, are logged as errors.
localLog(type, wellFormed, ret) ==
    CASE type = "neuro_log" -> "none"
      [] ~wellFormed -> "error"
      [] ret = "throws" -> "error"
      [] type \in {"neuro_context", "neuro_action_result"} -> "info"
      [] OTHER -> IF ret = "true" THEN "info" ELSE "error"

\* The response handleRuntimeMessage gives the sender: sendResponse({ ok: true })
\* after the try block, for every type routed to a handler.
localResponse(type, ret) == "ok"

(* ---------------------------- popup manager --------------------------- *)

\* The object createPopupManager() returns. A log entry is identified by its
\* place in the order of the addLogEntry calls (logged counts them);
\* popupPorts is the number of ports in the set, listeners the number of
\* onConnect listeners setupPopupListeners has registered.
createPopupManager ==
    [logCache |-> <<>>, logged |-> 0, isPopupOpen |-> FALSE, popupPorts |-> 0,
     listeners |-> 0]

\* this.logCache.slice(-n)
SliceLast(seq, n) ==
    IF Len(seq) <= n THEN seq ELSE SubSeq(seq, Len(seq) - n + 1, Len(seq))

addLogEntry_KeepOldest(p) ==
    LET pushed == Append(p.logCache, p.logged + 1)
    IN [p EXCEPT !.logged = p.logged + 1,
                 !.logCache = IF Len(pushed) > maxCacheSize
                              THEN SubSeq(pushed, 1, maxCacheSize) ELSE pushed]

\* addLogEntry(logData): push, then trim to the last maxCacheSize entries.
\* (The new_log broadcast to the open ports leaves the manager as it is.)
addLogEntry(p) ==
    LET pushed == Append(p.logCache, p.logged + 1)
    IN [p EXCEPT !.logged = p.logged + 1,
                 !.logCache = IF Len(pushed) > maxCacheSize
                              THEN SliceLast(pushed, maxCacheSize) ELSE pushed]

setupPopupListeners(p) == [p EXCEPT !.listeners = p.listeners + 1]

\* What initialize() does to the popup manager: it registers the onConnect
\* listener and logs two entries, one before and one after connect().
initialize(p) == addLogEntry(addLogEntry(setupPopupListeners(p)))

\* new PopupManager(): the manager of the class, whose constructor registers
\* its onConnect listener.
PopupManager == [logCache |-> <<>>, logged |-> 0, isPopupOpen |-> FALSE]

\* PopupManager.addLogEntry(logData).
PopupManager_addLogEntry(m) ==
    LET pushed == Append(m.logCache, m.logged + 1)
    IN [m EXCEPT !.logged = m.logged + 1,
                 !.logCache = IF Len(pushed) > maxCacheSize
                              THEN SliceLast(pushed, maxCacheSize) ELSE pushed]

\* The popups that the new_log message of addLogEntry reaches, open of them
\* being open.  The object literal posts it to every port of popupPorts; the
\* class hands it to chrome.runtime.sendMessage, which every open popup
\* listens to.
Reached(p, m, open) ==
    [literal |-> IF p.isPopupOpen THEN p.popupPorts ELSE 0,
     class |-> IF m.isPopupOpen THEN open ELSE 0]

\* sendCachedData(port): the messages posted to the port.
sendCachedData(p) ==
    <<[type |-> "status_update", data |-> 0]>>
        \o [i \in 1..Len(p.logCache) |-> [type |-> "cached_log", data |-> p.logCache[i]]]

\* The messages a port receives when its connect event is dispatched to n
\* registered onConnect listeners, each of which calls sendCachedData(port).
RECURSIVE Dispatch(_, _)
Dispatch(p, n) == IF n = 0 THEN <<>> ELSE sendCachedData(p) \o Dispatch(p, n - 1)

(* --------------------------- the content script ------------------------ *)

\* The content script reads Date.now() only to subtract one of its three
\* timestamps from it, so the model keeps the three differences: each grows by
\* PageStep as time passes and stays put once it is past the threshold it is
\* compared with.
Grown(age, threshold) == Min(age + PageStep, threshold + PageStep)

Questions == 1..MaxQuestions

\* A timer is armed when setTimeout has run and due once its delay has passed.
NoTimers == [armed |-> 0, due |-> 0]

Pending(timers) == timers.armed + timers.due

\* The timers of one delay after PageStep ms.
Elapsed(timers, timerDelay) ==
    IF PageStep >= timerDelay
    THEN [armed |-> 0, due |-> timers.due + timers.armed]
    ELSE timers

\* The content script once main.js has run to its last line: the timestamps
\* are 0 (so every difference is past its threshold) except the one that the
\* initial registerActions() has just set, and its neuro_register_actions
\* message is on its way.  sent counts the messages of the two kinds the
\* thresholds are about; registerSentAge, contextSentAge and submitAge are the
\* times since the last such message left and since the submit button was
\* last clicked by submit_answer.
LoadedScript ==
    [shown |-> 0, changes |-> 0,
     lastQuestionHash |-> 0,
     contextAge |-> CONTEXT_CHANGE_THRESHOLD + PageStep,
     registrationAge |-> 0,
     answerAge |-> ANSWER_COOLDOWN_PERIOD + PageStep,
     observerTimers |-> NoTimers,
     retryTimers |-> NoTimers,
     registerPromises |-> 1,
     sent |-> [register |-> 1, question |-> 0],
     registerSentAge |-> 0,
     contextSentAge |-> CONTEXT_CHANGE_THRESHOLD + PageStep,
     submitAge |-> ANSWER_COOLDOWN_PERIOD + PageStep]

\* chrome.runtime.sendMessage of a neuro_register_actions message.
SendRegister(p) ==
    [p EXCEPT !.sent.register = (@ + 1) % 2, !.registerSentAge = 0]

\* registerActions() up to the sendMessage call: its promise is left pending.
registerActions(p) ==
    IF p.registrationAge < ACTION_REGISTRATION_THRESHOLD
    THEN p
    ELSE SendRegister([p EXCEPT !.registrationAge = 0, !.registerPromises = @ + 1])

\* sendContext(message) with the `New question` message.
sendContext(p) ==
    [p EXCEPT !.sent.question = (@ + 1) % 4, !.contextSentAge = 0]

observerCallback_NoCooldown(p) ==
    IF p.shown = 0
    THEN registerActions(p)
    ELSE IF p.shown # p.lastQuestionHash
            /\ p.contextAge > CONTEXT_CHANGE_THRESHOLD
         THEN registerActions(sendContext(
                  [p EXCEPT !.lastQuestionHash = p.shown, !.contextAge = 0]))
         ELSE p

\* The function the MutationObserver hands to setTimeout.  shown is the
\* question extractQuestionContext() finds (0: none, a transition screen),
\* and stands for the JSON text of the context as well.
observerCallback(p) ==
    IF p.shown = 0
    THEN registerActions(p)
    ELSE IF p.shown # p.lastQuestionHash
         THEN IF p.answerAge < ANSWER_COOLDOWN_PERIOD
              THEN p
              ELSE IF p.contextAge > CONTEXT_CHANGE_THRESHOLD
                   THEN registerActions(sendContext(
                            [p EXCEPT !.lastQuestionHash = p.shown,
                                      !.contextAge = 0]))
                   ELSE p
         ELSE p

\* updateLastAnswerSubmittedTime(), after submitButton.click().
updateLastAnswerSubmittedTime(p) == [p EXCEPT !.answerAge = 0, !.submitAge = 0]

DataKinds == {"unparsable", "no_answer", "answer"}
ContextTypes == {"unknown", "tap", "choice", "text"}

\* Whether submit_answer's switch puts the answer into the page: a choice is
\* selected when an option matches, a text is typed into the input.
Applied(contextType, matched) ==
    \/ contextType = "choice" /\ matched
    \/ contextType = "text"

\* submit_answer(parameters, actionId): the content script after it and the
\* success values of the neuro_action_result messages it sent.  In a tap
\* challenge the tokens of extractQuestionContext() are strings, so
\* btn.innerText.trim() throws and the function is left there.
submit_answer(p, data, contextType, button) ==
    IF data = "no_answer"
    THEN [p |-> p, results |-> <<FALSE>>]
    ELSE IF contextType = "tap"
         THEN [p |-> p, results |-> <<>>]
         ELSE [p |-> IF button THEN updateLastAnswerSubmittedTime(p) ELSE p,
               results |-> <<TRUE>>]

\* continue_lesson(actionId).
continue_lesson(p, button) == [p |-> p, results |-> <<button>>]

\* get_question_context(actionId).
get_question_context(p) == [p |-> p, results |-> <<TRUE>>]

\* The onMessage listener of main.js on a neuro_action message.
onNeuroAction(p, name, data, contextType, button) ==
    IF data = "unparsable"
    THEN [p |-> p, results |-> <<FALSE>>]
    ELSE IF name = "submit_answer"
         THEN submit_answer(p, data, contextType, button)
         ELSE IF name = "get_question_context"
              THEN get_question_context(p)
              ELSE IF name = "continue_lesson"
                   THEN continue_lesson(p, button)
                   ELSE [p |-> p, results |-> <<>>]

NoAction ==
    [name |-> "none", data |-> "none", contextType |-> "unknown",
     matched |-> FALSE, button |-> FALSE, results |-> <<>>]

(* ------------------------------- events ------------------------------- *)

\* The state after `new BackgroundService()`: the constructor ran
\* initialize(), whose connect() created the first socket or threw.
InitConn(throws) ==
    connect([ws |-> 0, isConnected |-> FALSE, reconnectAttempts |-> 0,
             reconnectTimer |-> "null", connectionLost |-> FALSE,
             heartbeatInterval |-> FALSE,
             sock |-> [s \in Sockets |-> "closed"], timersPending |-> 0,
             intervalsActive |-> 0, lastFrame |-> "none",
             wire |-> [i \in ActionIds |-> [k \in ResultKinds |-> 0]],
             firstFrame |-> [s \in Sockets |-> "none"],
             startupFrames |-> [s \in Sockets |-> 0],
             lostNotifs |-> 0, restoredNotifs |-> 0, statusLogs |-> <<>>], throws)

Init ==
    /\ \E throws \in BOOLEAN :
         /\ LET c == InitConn(throws) IN
              /\ ws = c.ws
              /\ isConnected = c.isConnected
              /\ reconnectAttempts = c.reconnectAttempts
              /\ reconnectTimer = c.reconnectTimer
              /\ connectionLost = c.connectionLost
              /\ heartbeatInterval = c.heartbeatInterval
              /\ sock = c.sock
              /\ timersPending = c.timersPending
              /\ intervalsActive = c.intervalsActive
              /\ lastFrame = c.lastFrame
              /\ wire = c.wire
              /\ firstFrame = c.firstFrame
              /\ startupFrames = c.startupFrames
              /\ lostNotifs = c.lostNotifs
              /\ restoredNotifs = c.restoredNotifs
         /\ lastEvent = IF throws THEN "connectThrows" ELSE "connect"
         /\ delay = IF throws THEN ReconnectDelay(InitConn(throws).reconnectAttempts) ELSE 0
    /\ req = [i \in ActionIds |-> NoRequest]
    /\ inflight = [i \in ActionIds |-> [k \in {"tab_ok", "tab_fail"} |-> 0]]
    /\ lastSend = NoSend
    /\ rearmed = FALSE
    /\ startups = 0
    /\ disconnectCalled = FALSE
    /\ cycles = 0
    /\ connectBit = 1
    /\ statusLogs = <<>>
    /\ neuroConnected = FALSE
    /\ now = TimeStep
    /\ lastMessageTime = 0
    /\ received = NoMessage
    /\ popup = initialize(createPopupManager)
    /\ feed = <<>>
    /\ classPopup = PopupManager_addLogEntry(PopupManager_addLogEntry(PopupManager))
    /\ newLog = [literal |-> 0, class |-> 0]
    /\ page = LoadedScript
    /\ lastAction = NoAction

\* chrome.runtime.onStartup: initialize() runs again and calls connect().
Startup(throws) ==
    /\ startups < MaxStartup
    /\ throws => reconnectAttempts < AttemptsCap
    /\ Becomes(connect(Conn, throws))
    /\ startups' = startups + 1

\* A reconnect timer fires: () => this.connect(). `own` says that it is the
\* timer this.reconnectTimer names; the handle is left as it is.
ReconnectTimerFires(throws, own) ==
    /\ timersPending > 0
    /\ own => reconnectTimer = "pending"
    /\ ~own => timersPending > (IF reconnectTimer = "pending" THEN 1 ELSE 0)
    /\ throws => reconnectAttempts < AttemptsCap
    /\ Becomes(connect([Conn EXCEPT !.timersPending = timersPending - 1,
                                    !.reconnectTimer =
                                        IF own THEN "fired" ELSE reconnectTimer],
                       throws))
    /\ UNCHANGED startups

\* The open event of socket s.
SocketOpen(s) ==
    /\ sock[s] = "connecting"
    /\ Becomes(handleOpen([Conn EXCEPT !.sock[s] = "open"]))
    /\ UNCHANGED startups

\* The server starts the closing handshake of socket s: readyState becomes
\* CLOSING, no handler runs.
SocketClosing(s) ==
    /\ sock[s] = "open"
    /\ Becomes([Conn EXCEPT !.sock[s] = "closing"])
    /\ UNCHANGED startups

\* The socket object s as it is when its close event is delivered: CLOSED,
\* and nothing is kept of the frames written to it.
Closed(c, s) ==
    [c EXCEPT !.sock[s] = "closed", !.firstFrame[s] = "none", !.startupFrames[s] = 0]

\* The close event of socket s.
SocketClose(s) ==
    /\ sock[s] # "closed"
    /\ reconnectAttempts < AttemptsCap
    /\ Becomes(handleClose(Closed(Conn, s)))
    /\ UNCHANGED startups

\* chrome.runtime.onSuspend: shutdown() calls disconnect().
Disconnect ==
    /\ Becomes(disconnect(Conn))
    /\ UNCHANGED startups

\* What the history of the connection records of each event.
ObserveConnect(throws, cleared, explicit) ==
    /\ lastEvent' = IF throws THEN "connectThrows" ELSE "connect"
    /\ connectBit' = 1 - connectBit
    /\ rearmed' = (throws /\ cleared)
    /\ cycles' = IF explicit \/ throws THEN 0 ELSE cycles
    /\ disconnectCalled' = IF explicit THEN FALSE ELSE disconnectCalled
    /\ delay' = IF throws THEN ReconnectDelay(reconnectAttempts') ELSE delay
    /\ statusLogs' = <<>>
    /\ UNCHANGED <<lastSend, neuroConnected>>

ObserveSocket(event, logs) ==
    /\ lastEvent' = event
    /\ statusLogs' = logs
    /\ neuroConnected' = StatusAfter(neuroConnected, logs)
    /\ UNCHANGED <<disconnectCalled, cycles, rearmed, connectBit, lastSend, delay>>

ObserveClose(s) ==
    /\ lastEvent' = "close"
    /\ rearmed' = (reconnectTimer = "pending")
    /\ cycles' = IF sock[s] \in {"open", "closing"} /\ isConnected
                    /\ \A t \in Sockets \ {s} : sock[t] = "closed"
                 THEN Min(cycles + 1, MAX_RECONNECT_ATTEMPTS)
                 ELSE 0
    /\ delay' = ReconnectDelay(reconnectAttempts')
    /\ statusLogs' = handleClose(Closed(Conn, s)).statusLogs
    /\ neuroConnected' = StatusAfter(neuroConnected, statusLogs')
    /\ UNCHANGED <<disconnectCalled, connectBit, lastSend>>

ObserveDisconnect ==
    /\ lastEvent' = "disconnect"
    /\ disconnectCalled' = TRUE
    /\ cycles' = 0
    /\ statusLogs' = disconnect(Conn).statusLogs
    /\ neuroConnected' = StatusAfter(neuroConnected, statusLogs')
    /\ UNCHANGED <<rearmed, connectBit, lastSend, delay>>

\* The events of the connection, with its history observed.
StartupEvent ==
    \E throws \in BOOLEAN :
        /\ Startup(throws)
        /\ ObserveConnect(throws, reconnectTimer = "pending", TRUE)
        /\ UNCHANGED <<routeVars, auxVars>>

TimerEvent ==
    \E throws \in BOOLEAN, own \in BOOLEAN :
        /\ ReconnectTimerFires(throws, own)
        /\ ObserveConnect(throws, ~own /\ reconnectTimer = "pending", FALSE)
        /\ UNCHANGED <<routeVars, auxVars>>

OpenEvent(s) ==
    /\ SocketOpen(s)
    /\ ObserveSocket("open", handleOpen([Conn EXCEPT !.sock[s] = "open"]).statusLogs)
    /\ UNCHANGED <<routeVars, auxVars>>

ClosingEvent(s) ==
    SocketClosing(s) /\ ObserveSocket("closing", <<>>) /\ UNCHANGED <<routeVars, auxVars>>

CloseEvent(s) ==
    SocketClose(s) /\ ObserveClose(s) /\ UNCHANGED <<routeVars, auxVars>>

DisconnectEvent ==
    Disconnect /\ ObserveDisconnect /\ UNCHANGED <<routeVars, auxVars>>

\* The connection alone.
Next ==
    \/ StartupEvent
    \/ TimerEvent
    \/ \E s \in Sockets : OpenEvent(s)
    \/ \E s \in Sockets : ClosingEvent(s)
    \/ \E s \in Sockets : CloseEvent(s)
    \/ DisconnectEvent

Spec == Init /\ [][Next]_vars

(* --------------------------- action routing --------------------------- *)

\* The agent's next action frame arrives on open socket s: handleMessage
\* dispatches it, process() calls handleAction, which checks data.id and
\* suspends in `await chrome.tabs.query`.
ActionArrives(s, id, name) ==
    /\ sock[s] = "open"
    /\ req[id].phase = "none"
    /\ \A j \in ActionIds : j < id => req[j].phase # "none"
    /\ req' = [req EXCEPT ![id] = [NoRequest EXCEPT !.phase = "query", !.name = name]]
    /\ UNCHANGED <<connVars, histVars, obsVars, auxVars, inflight>>

\* chrome.tabs.query resolves with n tabs and handleAction resumes.
QueryReturns(id, n) ==
    /\ req[id].phase = "query"
    /\ LET r == afterQuery(Conn, req[id], id, n) IN
         /\ Becomes(r.c)
         /\ req' = [req EXCEPT ![id] = r.q]
    /\ UNCHANGED <<startups, obsVars, auxVars, inflight>>

\* chrome.tabs.sendMessage to the current tab settles. accepted: a content
\* script received the neuro_action message (it has run its listener, and
\* its result, if it sends one, is on its way); otherwise the promise rejected.
TabSendSettles(id, accepted, kind) ==
    /\ req[id].phase = "send"
    /\ LET r == afterTabSend(Conn, req[id], id, accepted) IN
         /\ Becomes(r.c)
         /\ req' = [req EXCEPT ![id] = r.q]
    /\ inflight' = IF accepted /\ contentResults(req[id].name, kind) > 0
                   THEN [inflight EXCEPT ![id][kind] = @ + contentResults(req[id].name, kind)]
                   ELSE inflight
    /\ UNCHANGED <<startups, obsVars, auxVars>>

\* A neuro_action_result message reaches the background: handleRuntimeMessage
\* calls handleActionResult inside its try block.
ResultArrives(id, kind) ==
    /\ inflight[id][kind] > 0
    /\ inflight' = [inflight EXCEPT ![id][kind] = @ - 1]
    /\ Becomes(handleActionResult(Conn, id, kind).c)
    /\ UNCHANGED <<startups, obsVars, auxVars, req>>

\* A collaborator calls connection.sendToNeuro with a frame of its own, which
\* carries no game field.
SendFrame(command) ==
    /\ LET r == sendToNeuro(Conn, WithoutGame(Frame(command, 0, "none"))) IN
         /\ Becomes(r.c)
         /\ lastSend' = SendRecord(Conn, command, r)
    /\ UNCHANGED <<startups, routeVars, disconnectCalled, cycles, lastEvent, rearmed,
                   connectBit, delay, statusLogs, neuroConnected, auxVars>>

\* A connection event while frames are sent or actions are routed: the
\* handlers do not touch the requests, and the history is not recorded.
Quiet ==
    /\ reconnectAttempts' <= RouteAttemptsCap
    /\ UNCHANGED <<routeVars, obsVars, auxVars>>

StartupQuiet == \E throws \in BOOLEAN : Startup(throws) /\ Quiet

TimerQuiet ==
    \E throws \in BOOLEAN, own \in BOOLEAN : ReconnectTimerFires(throws, own) /\ Quiet

OpenQuiet(s) == SocketOpen(s) /\ Quiet

ClosingQuiet(s) == SocketClosing(s) /\ Quiet

CloseQuiet(s) == SocketClose(s) /\ Quiet

DisconnectQuiet == Disconnect /\ Quiet

\* The connection, onStartup included, and the collaborators that send
\* frames through it.
SendNext ==
    \/ StartupQuiet
    \/ TimerQuiet
    \/ \E s \in Sockets : OpenQuiet(s)
    \/ \E s \in Sockets : ClosingQuiet(s)
    \/ \E s \in Sockets : CloseQuiet(s)
    \/ DisconnectQuiet
    \/ \E command \in Commands : SendFrame(command)

SpecSend == Init /\ [][SendNext]_vars

\* The connection, onStartup included, and the agent's actions routed to the
\* tabs and their results routed back.
RouteNext ==
    \/ StartupQuiet
    \/ TimerQuiet
    \/ \E s \in Sockets : OpenQuiet(s)
    \/ \E s \in Sockets : ClosingQuiet(s)
    \/ \E s \in Sockets : CloseQuiet(s)
    \/ DisconnectQuiet
    \/ \E s \in Sockets, id \in ActionIds, name \in AgentNames : ActionArrives(s, id, name)
    \/ \E id \in ActionIds, n \in 0..MaxTabs : QueryReturns(id, n)
    \/ \E id \in ActionIds, accepted \in BOOLEAN, kind \in TabOutcomes :
          TabSendSettles(id, accepted, kind)
    \/ \E id \in ActionIds, kind \in {"tab_ok", "tab_fail"} : ResultArrives(id, kind)

SpecRoute == Init /\ [][RouteNext]_vars

\* The open event of socket s, with the requests that arrived before it
\* marked as belonging to an earlier connection epoch.
OpenEpoch(s) ==
    /\ SocketOpen(s)
    /\ reconnectAttempts' <= RouteAttemptsCap
    /\ req' = [id \in ActionIds |->
                 IF req[id].phase = "none" THEN req[id] ELSE [req[id] EXCEPT !.old = TRUE]]
    /\ UNCHANGED <<inflight, obsVars, auxVars>>

\* One session (a single initialize()) with its connection epochs told
\* apart, and the agent's actions routed to the tabs.
EpochNext ==
    \/ TimerQuiet
    \/ \E s \in Sockets : OpenEpoch(s)
    \/ \E s \in Sockets : ClosingQuiet(s)
    \/ \E s \in Sockets : CloseQuiet(s)
    \/ DisconnectQuiet
    \/ \E s \in Sockets, id \in ActionIds, name \in AgentNames : ActionArrives(s, id, name)
    \/ \E id \in ActionIds, n \in 0..MaxTabs : QueryReturns(id, n)
    \/ \E id \in ActionIds, accepted \in BOOLEAN, kind \in TabOutcomes :
          TabSendSettles(id, accepted, kind)
    \/ \E id \in ActionIds, kind \in {"tab_ok", "tab_fail"} : ResultArrives(id, kind)

SpecEpoch == Init /\ [][EpochNext]_vars

\* The reconnect timer fires and new WebSocket(url) throws once more, however
\* many times it has thrown before.
RetryThrows ==
    /\ reconnectTimer = "pending"
    /\ reconnectAttempts < MaxBackoffAttempts
    /\ Becomes(connect([Conn EXCEPT !.timersPending = timersPending - 1,
                                    !.reconnectTimer = "fired"], TRUE))
    /\ delay' = ReconnectDelay(reconnectAttempts')
    /\ lastEvent' = "connectThrows"
    /\ connectBit' = 1 - connectBit
    /\ UNCHANGED <<startups, routeVars, disconnectCalled, cycles, rearmed, lastSend,
                   statusLogs, neuroConnected, auxVars>>

\* The backoff alone: a server that can never be reached.
BackoffNext == RetryThrows

SpecBackoff == Init /\ [][BackoffNext]_vars

(* -------------------------- runtime messages -------------------------- *)

\* chrome.runtime.onMessage delivers a message of the given type to the
\* background; wellFormed: it passes the format check of its handler.
LocalMessage(type, wellFormed) ==
    /\ LET r == handleRuntimeMessage(Conn, type, wellFormed) IN
         /\ Becomes(r.c)
         /\ lastSend' = [ret |-> r.ret, wrote |-> r.wrote,
                         command |-> IF r.wrote THEN r.c.lastFrame ELSE "none",
                         connected |-> isConnected,
                         ready |-> IF ws = 0 THEN "null" ELSE sock[ws],
                         game |-> IF r.wrote THEN r.game ELSE "none",
                         local |-> IF wellFormed THEN type ELSE "invalid",
                         log |-> localLog(type, wellFormed, r.ret),
                         response |-> localResponse(type, r.ret)]
    /\ UNCHANGED <<startups, routeVars, disconnectCalled, cycles, lastEvent, rearmed,
                   connectBit, delay, statusLogs, neuroConnected, auxVars>>

\* The connection, onStartup included, the runtime messages of the content
\* scripts and the popup, and the collaborators' own frames.
LocalNext ==
    \/ StartupQuiet
    \/ TimerQuiet
    \/ \E s \in Sockets : OpenQuiet(s)
    \/ \E s \in Sockets : ClosingQuiet(s)
    \/ \E s \in Sockets : CloseQuiet(s)
    \/ DisconnectQuiet
    \/ \E type \in LocalTypes, wellFormed \in BOOLEAN : LocalMessage(type, wellFormed)
    \/ \E command \in Commands : SendFrame(command)

SpecLocal == Init /\ [][LocalNext]_vars

(* ------------------------------ the popup ----------------------------- *)

\* chrome.runtime.onStartup: the listener logs one entry and runs
\* initialize() again, popup manager included.
StartupPopup ==
    /\ feed = <<>>
    /\ popup.logged + 3 <= MaxLogged
    /\ \E throws \in BOOLEAN : Startup(throws)
    /\ popup' = initialize(addLogEntry(popup))
    /\ classPopup' = PopupManager_addLogEntry(PopupManager_addLogEntry(
                         PopupManager_addLogEntry(classPopup)))
    /\ newLog' = Reached(popup, classPopup, popup.popupPorts)
    /\ UNCHANGED <<routeVars, obsVars, now, lastMessageTime, received, feed, pageVars>>

\* Any collaborator logs through the popup manager.
AddLog ==
    /\ feed = <<>>
    /\ popup.logged < MaxLogged
    /\ popup' = addLogEntry(popup)
    /\ classPopup' = PopupManager_addLogEntry(classPopup)
    /\ newLog' = Reached(popup, classPopup, popup.popupPorts)
    /\ UNCHANGED <<connVars, histVars, routeVars, obsVars, now, lastMessageTime,
                   received, feed, pageVars>>

\* A popup opens a port named 'popup': every registered onConnect listener
\* runs; the port is added to the set popupPorts once.
PortConnects ==
    /\ feed = <<>>
    /\ popup.popupPorts < MaxPorts
    /\ popup' = [popup EXCEPT !.isPopupOpen = TRUE, !.popupPorts = @ + 1]
    /\ feed' = Dispatch(popup, popup.listeners)
    /\ classPopup' = [classPopup EXCEPT !.isPopupOpen = TRUE]
    /\ UNCHANGED <<connVars, histVars, routeVars, obsVars, now, lastMessageTime,
                   received, newLog, pageVars>>

\* The popup takes the messages posted to its port.
PortDrains ==
    /\ feed # <<>>
    /\ feed' = <<>>
    /\ UNCHANGED <<connVars, histVars, routeVars, obsVars, now, lastMessageTime,
                   received, popup, classPopup, newLog, pageVars>>

\* A popup closes: port.onDisconnect.
PortDisconnects ==
    /\ feed = <<>>
    /\ popup.popupPorts > 0
    /\ popup' = [popup EXCEPT !.popupPorts = @ - 1,
                               !.isPopupOpen = (popup.popupPorts - 1 > 0)]
    /\ classPopup' = [classPopup EXCEPT !.isPopupOpen = FALSE]
    /\ UNCHANGED <<connVars, histVars, routeVars, obsVars, now, lastMessageTime,
                   received, feed, newLog, pageVars>>

\* The popup manager, its log and the popups that attach to it.
PopupNext ==
    \/ StartupPopup
    \/ AddLog
    \/ PortConnects
    \/ PortDrains
    \/ PortDisconnects

SpecPopup == Init /\ [][PopupNext]_vars

(* -------------------------- inbound messages -------------------------- *)

\* A message event of open socket s. The agent uses the ids of its action
\* frames once each, in order.
Receive(s, kind, id, name) ==
    /\ sock[s] = "open"
    /\ kind # "action" => (id = 0 /\ name = "none")
    /\ kind = "action" => name # "none"
    /\ id # 0 => /\ req[id].phase = "none"
                 /\ \A j \in ActionIds : j < id => req[j].phase # "none"
    /\ LET r == handleMessage(Conn, req, kind, id, name) IN
         /\ Becomes(r.c)
         /\ req' = r.rq
         /\ received' = [kind |-> kind, id |-> id, dispatched |-> r.dispatched,
                         afterBad |-> received.kind = "malformed"]
    /\ UNCHANGED <<startups, obsVars, inflight, now, lastMessageTime, popupVars, pageVars>>

\* A neuro_action_result message whose data carries no id reaches the
\* background.
ResultWithoutId(kind) ==
    /\ Becomes(handleActionResult(Conn, 0, kind).c)
    /\ received' = [kind |-> "result", id |-> 0, dispatched |-> FALSE, afterBad |-> FALSE]
    /\ UNCHANGED <<startups, obsVars, routeVars, now, lastMessageTime, popupVars, pageVars>>

\* One session, every kind of message the agent can send, and the routing of
\* its actions.
InboundNext ==
    \/ TimerQuiet
    \/ \E s \in Sockets : OpenQuiet(s)
    \/ \E s \in Sockets : ClosingQuiet(s)
    \/ \E s \in Sockets : CloseQuiet(s)
    \/ DisconnectQuiet
    \/ \E s \in Sockets, kind \in InboundKinds, id \in {0} \cup ActionIds,
          name \in {"none"} \cup AgentNames : Receive(s, kind, id, name)
    \/ \E id \in ActionIds, n \in 0..MaxTabs : QueryReturns(id, n)
    \/ \E id \in ActionIds, accepted \in BOOLEAN, kind \in TabOutcomes :
          TabSendSettles(id, accepted, kind)
    \/ \E id \in ActionIds, kind \in {"tab_ok", "tab_fail"} : ResultArrives(id, kind)
    \/ \E kind \in {"tab_ok", "tab_fail"} : ResultWithoutId(kind)

SpecInbound == Init /\ [][InboundNext]_vars

(* -------------------------- liveness monitor -------------------------- *)

\* The open event of socket s: handleOpen, this.lastMessageTime = Date.now() included.
OpenBeat(s) ==
    /\ SocketOpen(s)
    /\ reconnectAttempts' <= RouteAttemptsCap
    /\ lastMessageTime' = now
    /\ UNCHANGED <<routeVars, obsVars, now, received, popupVars, pageVars>>

\* A message event of open socket s: handleMessage sets
\* this.lastMessageTime = Date.now() before it decodes the message.
MessageBeat(s) ==
    /\ sock[s] = "open"
    /\ lastMessageTime' = now
    /\ UNCHANGED <<connVars, histVars, routeVars, obsVars, now, received, popupVars, pageVars>>

\* The heartbeat interval timer fires.
HeartbeatTick ==
    /\ intervalsActive > 0
    /\ LET r == heartbeatTick(Conn, now, lastMessageTime) IN
         /\ Becomes(r.c)
         /\ lastSend' = [ret |-> "none", wrote |-> r.wrote, command |-> "ping",
                         connected |-> isConnected,
                         ready |-> IF ws = 0 THEN "null" ELSE sock[ws],
                         game |-> IF r.wrote THEN GAME_NAME ELSE "none",
                         local |-> "none", log |-> "none", response |-> "none"]
    /\ UNCHANGED <<startups, routeVars, disconnectCalled, cycles, lastEvent, rearmed,
                   connectBit, delay, statusLogs, neuroConnected, auxVars>>

TimePasses ==
    /\ now < MaxNow
    /\ now' = now + TimeStep
    /\ UNCHANGED <<connVars, histVars, routeVars, obsVars, lastMessageTime, received,
                   popupVars, pageVars>>

\* The connection, its heartbeat and the clock.
BeatNext ==
    \/ StartupQuiet
    \/ TimerQuiet
    \/ \E s \in Sockets : OpenBeat(s)
    \/ \E s \in Sockets : ClosingQuiet(s)
    \/ \E s \in Sockets : CloseQuiet(s)
    \/ DisconnectQuiet
    \/ \E s \in Sockets : MessageBeat(s)
    \/ HeartbeatTick
    \/ TimePasses
    \/ \E command \in Commands : SendFrame(command)

SpecBeat == Init /\ [][BeatNext]_vars

\* Timers fire: a pending setTimeout callback is eventually run.
SpecLive == Init /\ [][Next]_vars /\ WF_vars(TimerEvent)

(* ------------------------------- claims ------------------------------- *)

\* C1: at most one reconnect timer is pending at any time, for every
\* sequence of connect, open, close, connect-throws and disconnect events.
C1_OnePendingTimer ==
    /\ timersPending <= 1
    /\ timersPending = (IF reconnectTimer = "pending" THEN 1 ELSE 0)

\* C1 witness: a close arrived while the timer of an earlier close was still
\* pending, and scheduleReconnect replaced it.
C1_Witness == lastEvent = "close" /\ rearmed /\ timersPending = 1

\* C2 as claimed: after five consecutive open-then-close cycles the
\* "connection lost" escalation has fired exactly once.
C2_EscalatesOnFifthClosure ==
    (cycles = MAX_RECONNECT_ATTEMPTS /\ lastEvent = "close")
        => (connectionLost /\ lostNotifs = 1)

\* C3 as claimed: after disconnect() the session stays disconnected, arms no
\* reconnect timer and does not call connect() again.
C3_NoReconnectAfterDisconnect ==
    disconnectCalled =>
        /\ ~isConnected
        /\ timersPending = 0
        /\ lastEvent \notin {"connect", "connectThrows"}

\* C4: right after an open event is handled, reconnectAttempts is 0,
\* connectionLost is false, isConnected is true and exactly one heartbeat
\* interval timer is active.
C4_AfterOpen ==
    lastEvent = "open" =>
        /\ reconnectAttempts = 0
        /\ ~connectionLost
        /\ isConnected
        /\ heartbeatInterval
        /\ intervalsActive = 1

\* C4 witness: an open handled after two full open-then-close cycles.
C4_Witness == lastEvent = "open" /\ cycles >= 2

\* C5: while disconnect() has not been called, every close event and every
\* connect() that throws is eventually followed by another call of connect(),
\* whatever reconnectAttempts is.
C5_RetryNeverStops ==
    \A b \in {0, 1} :
        (lastEvent \in {"close", "connectThrows"} /\ connectBit = b /\ ~disconnectCalled)
            ~> (connectBit # b \/ disconnectCalled)

\* C5 witness: connect() called again after MAX_RECONNECT_ATTEMPTS was reached.
C5_Witness ==
    /\ lastEvent = "connect"
    /\ reconnectAttempts >= MAX_RECONNECT_ATTEMPTS
    /\ ~disconnectCalled

\* isConnected is true and this.ws is an OPEN socket.
CanSend == isConnected /\ ws # 0 /\ sock[ws] = "open"

\* The action/result frames written for id that handleAction fabricated,
\* and all of them.
SynthCount(id) == wire[id]["no_tab"] + wire[id]["comm_fail"] + wire[id]["internal"]
ResultCount(id) == SynthCount(id) + wire[id]["tab_ok"] + wire[id]["tab_fail"]

\* C6 as claimed: sendToNeuro returns true exactly when it wrote the frame,
\* writes only when isConnected is true and this.ws is OPEN, and never throws.
C6_SendContract ==
    /\ lastSend.ret # "throws"
    /\ (lastSend.ret = "true") <=> lastSend.wrote
    /\ lastSend.wrote => (lastSend.connected /\ lastSend.ready = "open")

\* C7 as claimed: a frame with a missing or empty command makes sendToNeuro
\* return false and write nothing in every connection state, and no frame
\* ever written has an empty command.
C7_EmptyCommandRejected ==
    /\ (lastSend.command = "" /\ lastSend.ret # "none")
          => (lastSend.ret = "false" /\ ~lastSend.wrote)
    /\ lastFrame # ""

\* C8 as claimed: when the tab lookup returns zero tabs, exactly one failure
\* result with the request's id is written, whatever close and open events
\* interleave with the lookup.
C8_ExactlyOneFailure ==
    \A id \in ActionIds :
        (req[id].phase = "done" /\ req[id].msgs = 0) => ResultCount(id) = 1

\* C8 amended: when the tab lookup returns zero tabs, no tab is messaged and
\* the "no tab" failure result with the request's id is written once if, at
\* that moment, isConnected is true and this.ws is OPEN, and not at all
\* otherwise; no other result with that id is ever written.
C8_FailureWhenConnected ==
    /\ [](\A id \in ActionIds :
            (req[id].phase = "done" /\ req[id].msgs = 0) =>
                /\ wire[id]["no_tab"] <= 1
                /\ ResultCount(id) = wire[id]["no_tab"]
                /\ \A k \in {"tab_ok", "tab_fail"} : inflight[id][k] = 0)
    /\ [][\A id \in ActionIds :
            (req[id].phase = "query" /\ req'[id].phase = "done") =>
                /\ req'[id].msgs = 0
                /\ wire'[id]["no_tab"] = (IF CanSend THEN 1 ELSE 0)]_vars

\* C8 witness: a lookup returned zero tabs and the failure result was written.
C8_Witness ==
    \E id \in ActionIds :
        req[id].phase = "done" /\ req[id].msgs = 0 /\ wire[id]["no_tab"] = 1

\* C9 as claimed: for a request forwarded to one or more tabs, a synthetic
\* failure result is written if and only if the send to every tab failed,
\* and never more than one.
C9_FailureIffAllSendsFailed ==
    \A id \in ActionIds :
        (req[id].phase = "done" /\ req[id].msgs >= 1) =>
            /\ SynthCount(id) <= 1
            /\ (SynthCount(id) = 1) <=> (req[id].messagesSent = 0)

\* C9 amended: for a request forwarded to one or more tabs, handleAction
\* writes the "failed to communicate" result if and only if the send to every
\* tab failed and, when the loop ends, isConnected is true and this.ws is
\* OPEN; it writes none when a tab accepted the forward, and never more than one.
C9_FailureIffAllFailedAndConnected ==
    /\ [](\A id \in ActionIds :
            (req[id].phase = "done" /\ req[id].msgs >= 1) =>
                /\ SynthCount(id) <= 1
                /\ SynthCount(id) = wire[id]["comm_fail"]
                /\ req[id].messagesSent >= 1 => SynthCount(id) = 0)
    /\ [][\A id \in ActionIds :
            (req[id].phase = "send" /\ req'[id].phase = "done") =>
                (wire'[id]["comm_fail"] =
                    (IF req'[id].messagesSent = 0 /\ CanSend THEN 1 ELSE 0))]_vars

\* C9 witness: two tabs were messaged, both sends failed and the failure
\* result was written.
C9_Witness ==
    \E id \in ActionIds :
        /\ req[id].phase = "done" /\ req[id].msgs >= 2
        /\ req[id].messagesSent = 0 /\ wire[id]["comm_fail"] = 1

\* C10 as claimed: at most one action/result frame is written per request id.
C10_AtMostOneResultPerId ==
    \A id \in ActionIds : ResultCount(id) <= 1

\* C11: an action with an id that one reachable tab accepted and answered
\* with a success result: when that result reaches the background while
\* isConnected is true and this.ws is OPEN, it is written, and it is the one
\* and only action/result frame with that id.
C11_OneSuccessResult ==
    /\ [](\A id \in ActionIds :
            (req[id].phase = "done" /\ req[id].msgs = 1) => ResultCount(id) <= 1)
    /\ [][\A id \in ActionIds :
            (/\ req[id].phase = "done" /\ req[id].msgs = 1 /\ req[id].messagesSent = 1
             /\ inflight'[id]["tab_ok"] < inflight[id]["tab_ok"]
             /\ CanSend)
            => (wire'[id]["tab_ok"] = 1 /\ ResultCount(id)' = 1)]_vars

\* C11 witness: one tab was messaged, it accepted, its success result has
\* arrived and is on the wire, and the connection is still open.
C11_Witness ==
    \E id \in ActionIds :
        /\ req[id].phase = "done" /\ req[id].msgs = 1 /\ req[id].messagesSent = 1
        /\ inflight[id]["tab_ok"] = 0 /\ wire[id]["tab_ok"] = 1 /\ ResultCount(id) = 1
        /\ CanSend

\* C12 as claimed: no action/result frame is written for a request that
\* arrived in an earlier connection epoch (before the latest open event).
C12_NoResultAcrossEpochs ==
    [][\A id \in ActionIds : req[id].old => ResultCount(id)' = ResultCount(id)]_vars

\* C13: the delay scheduleReconnect computes never exceeds
\* MAX_RECONNECT_INTERVAL and never decreases as reconnectAttempts grows.
C13_DelayMonotoneAndBounded ==
    /\ [](delay <= MAX_RECONNECT_INTERVAL * DelayUnit)
    /\ [][reconnectAttempts' = reconnectAttempts + 1 => delay' >= delay]_vars

\* C13 witness: the exponent has reached its cap and the delay its ceiling.
C13_Witness ==
    /\ reconnectAttempts > BackoffExponentCap + 1
    /\ delay = MAX_RECONNECT_INTERVAL * DelayUnit

\* The first four reconnect delays, in ms.
DelayTable == <<10000, 15000, 22500, 33750>>

\* C14: the n-th consecutive attempt is delayed by 10000, 15000, 22500, 33750
\* ms for n = 1..4, and the first reconnect scheduled once an open event has
\* reset reconnectAttempts to 0 is delayed by 10000 ms again.
C14_DelayValues ==
    /\ [](\A n \in 1..4 :
            (lastEvent \in {"close", "connectThrows"} /\ reconnectAttempts = n)
                => delay = DelayTable[n] * DelayUnit)
    /\ [][(reconnectAttempts = 0 /\ reconnectAttempts' # 0)
            => delay' = RECONNECT_INTERVAL * DelayUnit]_vars

\* C14 witness: a connection that had opened is closed, and the reconnect is
\* scheduled after 10000 ms.
C14_Witness ==
    /\ lastEvent = "close" /\ cycles >= 1
    /\ reconnectAttempts = 1 /\ delay = RECONNECT_INTERVAL * DelayUnit

\* C15: an active heartbeat interval timer implies isConnected, and there are
\* never two of them: every one still running is the one
\* this.heartbeatInterval names.
C15_HeartbeatOnlyWhileConnected ==
    /\ intervalsActive <= 1
    /\ intervalsActive = (IF heartbeatInterval THEN 1 ELSE 0)
    /\ intervalsActive > 0 => isConnected
    /\ lastEvent \in {"close", "disconnect"} => intervalsActive = 0

\* C15 witness: two sockets of the session have opened, each open started
\* the heartbeat, and one interval timer is running.
C15_Witness ==
    /\ lastEvent = "open"
    /\ \A s \in Sockets : sock[s] = "open"
    /\ intervalsActive = 1

\* C16: a heartbeat tick that finds isConnected true and this.ws OPEN writes
\* a ping frame if and only if Date.now() - lastMessageTime is strictly
\* greater than HEARTBEAT_INTERVAL; lastMessageTime changes only in an open
\* event or a message event, never in a step that writes or tries to write
\* an outbound frame.
C16_PingWhenQuiet ==
    /\ [][(lastSend' # lastSend /\ lastSend'.command = "ping" /\ CanSend)
            => (/\ lastSend'.wrote <=> (now - lastMessageTime > HEARTBEAT_INTERVAL)
                /\ lastSend'.wrote => lastFrame' = "ping")]_vars
    /\ [][lastSend' # lastSend => lastMessageTime' = lastMessageTime]_vars
    /\ [][lastMessageTime' # lastMessageTime
            => (\/ \E s \in Sockets : sock[s] = "connecting" /\ sock'[s] = "open"
                \/ (\E s \in Sockets : sock[s] = "open") /\ UNCHANGED connVars)]_vars

\* C16 witness: a tick wrote a ping on an open connection that had been
\* silent for more than HEARTBEAT_INTERVAL.
C16_Witness ==
    /\ lastSend.command = "ping" /\ lastSend.wrote /\ lastFrame = "ping"
    /\ CanSend
    /\ now - lastMessageTime > HEARTBEAT_INTERVAL

\* C17: an action frame without data or without data.id starts no tab
\* lookup, messages no tab and writes no frame.
C17_ActionWithoutIdIgnored ==
    [][(\E s \in Sockets, name \in AgentNames : Receive(s, "action", 0, name))
        => UNCHANGED <<connVars, req, inflight>>]_vars

\* C17 witness: an action frame without id was handled on an open
\* connection while no request was in progress, and none is.
C17_Witness ==
    /\ received.kind = "action" /\ received.id = 0 /\ received.dispatched
    /\ CanSend
    /\ \A id \in ActionIds : req[id].phase = "none"

\* C18: a frame whose command is "status", or anything else than "action",
\* writes no frame to the socket and leaves the connection as it was.
C18_OtherCommandsSilent ==
    [][(\E s \in Sockets, kind \in {"status", "other"} : Receive(s, kind, 0, "none"))
        => UNCHANGED <<connVars, histVars, req, inflight>>]_vars

\* C18 witness: a frame with an unknown command was dispatched and routed
\* on an open connection.
C18_Witness ==
    /\ received.kind = "other" /\ received.dispatched
    /\ CanSend

\* C19: a message that does not decode is not dispatched and changes neither
\* the connection nor its timers; a frame that arrives after it is decoded
\* and dispatched, and an action among them starts its tab lookup.
C19_DecodeFailureContained ==
    /\ [](received.kind = "malformed" => ~received.dispatched)
    /\ [](received.kind \in {"status", "other", "action"} => received.dispatched)
    /\ [][(\E s \in Sockets : Receive(s, "malformed", 0, "none"))
            => UNCHANGED <<connVars, histVars, req, inflight>>]_vars
    /\ [][(received.kind = "malformed" /\ received'.kind = "action" /\ received'.id # 0)
            => req'[received'.id].phase = "query"]_vars

\* C19 witness: an action frame arrived right after a message that did not
\* decode, and its tab lookup is under way.
C19_Witness ==
    /\ received.kind = "action" /\ received.afterBad /\ received.dispatched
    /\ received.id # 0 /\ req[received.id].phase = "query"

\* The wire command of each forwarded local message type.
WireCommand ==
    [t \in {"neuro_context", "neuro_action_result", "neuro_register_actions",
            "neuro_force_action"} |->
        CASE t = "neuro_context" -> "context"
          [] t = "neuro_action_result" -> "action/result"
          [] t = "neuro_register_actions" -> "actions/register"
          [] t = "neuro_force_action" -> "actions/force"]

\* C20: a well-formed message of one of the four local types, handled while
\* isConnected is true and this.ws is OPEN, writes one frame, whose command
\* is the wire command of its type; a message of another type, or one that
\* fails its format check, writes none; every frame written carries the
\* fixed game name, also when the caller left the game field out.
C20_LocalTypesMapToCommands ==
    /\ (lastSend.local \in DOMAIN WireCommand
           /\ lastSend.connected /\ lastSend.ready = "open")
          => (/\ lastSend.wrote
              /\ lastSend.command = WireCommand[lastSend.local]
              /\ lastSend.ret = "true")
    /\ lastSend.local \in {"invalid", "neuro_log"} => ~lastSend.wrote
    /\ lastSend.wrote => lastSend.game = GAME_NAME

\* C20 witness: a neuro_force_action message was wrapped into an
\* actions/force frame and written.
C20_Witness ==
    /\ lastSend.local = "neuro_force_action"
    /\ lastSend.wrote /\ lastSend.command = "actions/force"
    /\ lastFrame = "actions/force"

\* C21 as claimed: when the sendToNeuro call made for a local message of one
\* of the four forwarded types returns false, an error is logged, no
\* success entry is, and the response to the sender does not say ok.
C21_SendFailureReported ==
    (lastSend.local \in DOMAIN WireCommand /\ lastSend.ret = "false")
        => (lastSend.log = "error" /\ lastSend.response # "ok")

\* C22 as claimed: an open event handled when more than one reconnect attempt
\* has been made since the last open calls showReconnectionNotification; the
\* first open of the process (no frame written yet) does not.
C22_RestoredNotified ==
    /\ [][((\E s \in Sockets : sock[s] = "connecting" /\ sock'[s] = "open")
             /\ reconnectAttempts > 1 /\ lastFrame # "none")
            => restoredNotifs' > 0]_vars
    /\ [][((\E s \in Sockets : sock[s] = "connecting" /\ sock'[s] = "open")
             /\ lastFrame = "none")
            => restoredNotifs' = restoredNotifs]_vars

\* C23: every close event sets isConnected to false, increments
\* reconnectAttempts by exactly 1 and arms the reconnect timer, whether
\* isConnected was true or false; logNeuroConnection(false) is called, once,
\* if and only if isConnected was true when the close event arrived.
C23_CloseAlwaysReschedules ==
    [][(\E s \in Sockets : sock[s] # "closed" /\ sock'[s] = "closed")
        => (/\ ~isConnected'
            /\ reconnectAttempts' = reconnectAttempts + 1
            /\ reconnectTimer' = "pending" /\ timersPending' >= 1
            /\ statusLogs' = IF isConnected THEN <<"disconnected">> ELSE <<>>)]_vars

\* C23 witness: a close event arrived while isConnected was false and a
\* reconnect was already counted; nothing was logged, and the timer is armed.
C23_Witness ==
    /\ lastEvent = "close" /\ statusLogs = <<>>
    /\ reconnectAttempts >= 2 /\ reconnectTimer = "pending" /\ ~isConnected

\* C24 as claimed: the open event of a socket writes exactly one startup frame,
\* to that socket, and the first frame written to any socket is its startup
\* frame.
C24_StartupFirst ==
    /\ [][\A s \in Sockets :
            (sock[s] = "connecting" /\ sock'[s] = "open")
                => (/\ startupFrames'[s] = 1
                    /\ \A t \in Sockets \ {s} : startupFrames'[t] = startupFrames[t])]_vars
    /\ [](\A s \in Sockets : firstFrame[s] \in {"none", "startup"})

\* The neuro_action message of request id has been sent to tab t.
ForwardedTo(id, t) ==
    \/ req[id].phase = "send" /\ req[id].idx >= t
    \/ req[id].phase = "done" /\ req[id].msgs >= t

\* C25 as claimed: of two action frames that arrived on the connection that
\* is current (no open event since), the one that arrived first is forwarded
\* to every tab before the one that arrived second is.
C25_ForwardedInArrivalOrder ==
    [][\A i \in ActionIds, j \in ActionIds, t \in 1..MaxTabs :
        (/\ i < j /\ ~req[i].old /\ ~req[j].old
         /\ ~ForwardedTo(i, t) /\ ForwardedTo(i, t)')
            => ~ForwardedTo(j, t)]_vars

\* C26: an action/result frame is written only with the id of an action
\* frame received before it; a neuro_action_result message without id writes
\* nothing and changes nothing.
C26_ResultIdsWereReceived ==
    /\ [](\A id \in ActionIds : ResultCount(id) > 0 => req[id].phase # "none")
    /\ [][(\E kind \in {"tab_ok", "tab_fail"} : ResultWithoutId(kind))
            => UNCHANGED <<connVars, histVars, req, inflight>>]_vars

\* C26 witness: a result without id was handled on an open connection on
\* which the only frame written so far is the startup frame, and it still is.
C26_Witness ==
    /\ received.kind = "result" /\ CanSend
    /\ lastFrame = "startup"

\* C27 as claimed: no action/result frame is written for a request whose
\* action name is not one of the three the content script routes, whatever
\* the number of tabs the lookup returns.
C27_UnknownActionNoReply ==
    [][\A id \in ActionIds :
        (req[id].phase # "none" /\ req[id].name \notin SupportedNames
            /\ req[id].name # "none")
            => ResultCount(id)' = ResultCount(id)]_vars

\* C28: right after disconnect() isConnected is false, this.ws is null, no
\* heartbeat interval timer is active and no reconnect timer is pending; in
\* every state, calling disconnect() twice gives the state that calling it
\* once gives, and a second call right after the first changes nothing.
C28_DisconnectIdempotent ==
    /\ [](lastEvent = "disconnect" =>
            /\ ~isConnected /\ ws = 0
            /\ ~heartbeatInterval /\ intervalsActive = 0
            /\ reconnectTimer = "null" /\ timersPending = 0)
    /\ [](disconnect(disconnect(Conn)) = disconnect(Conn))
    /\ [][(lastEvent = "disconnect" /\ lastEvent' = "disconnect")
            => UNCHANGED <<connVars, histVars>>]_vars

\* C28 witness: disconnect() ran on a session that was connected, with a
\* reconnect already counted: its socket is closing.
C28_Witness ==
    /\ lastEvent = "disconnect" /\ disconnectCalled
    /\ \E s \in Sockets : sock[s] = "closing"
    /\ reconnectAttempts = 0 /\ lastFrame = "startup"

\* C29: the log cache never holds more than maxCacheSize entries, and it
\* holds the entries of the most recent addLogEntry calls, in the order of
\* the calls, with a popup open or not.
C29_CacheKeepsMostRecent ==
    LET kept == Min(popup.logged, maxCacheSize)
    IN /\ Len(popup.logCache) <= maxCacheSize
       /\ popup.logCache = [i \in 1..kept |-> popup.logged - kept + i]

\* C29 witness: more than maxCacheSize entries have been logged while a
\* popup was open, and the oldest of them are gone.
C29_Witness ==
    /\ popup.logged > maxCacheSize /\ popup.isPopupOpen
    /\ Len(popup.logCache) = maxCacheSize /\ popup.logCache[1] > 1

\* C30 as claimed: a port that connects receives one status_update followed
\* by every cached log entry once, as cached_log, in cache order.
C30_ReplayOnce ==
    feed # <<>> =>
        feed = <<[type |-> "status_update", data |-> 0]>>
                 \o [i \in 1..Len(popup.logCache) |->
                        [type |-> "cached_log", data |-> popup.logCache[i]]]

\* C33 as claimed: at most one socket of the session is CONNECTING or OPEN at
\* any time, also when initialize() runs from the constructor and from the
\* onStartup listener.
C33_OneLiveSocket ==
    Cardinality({s \in Sockets : sock[s] \in {"connecting", "open"}}) <= 1

\* C36 as claimed: between two event handlers, statusCache.neuroConnected
\* equals isConnected.
C36_StatusMatchesConnection == neuroConnected = isConnected

(* ----------------------- events of the content script ------------------ *)

\* PageStep ms pass in the tab.
PageTick ==
    /\ page' = [page EXCEPT
                    !.contextAge = Grown(@, CONTEXT_CHANGE_THRESHOLD),
                    !.registrationAge = Grown(@, ACTION_REGISTRATION_THRESHOLD),
                    !.answerAge = Grown(@, ANSWER_COOLDOWN_PERIOD),
                    !.registerSentAge = Grown(@, ACTION_REGISTRATION_THRESHOLD),
                    !.contextSentAge = Grown(@, CONTEXT_CHANGE_THRESHOLD),
                    !.submitAge = Grown(@, ANSWER_COOLDOWN_PERIOD),
                    !.observerTimers = Elapsed(@, DEBOUNCE_DELAY),
                    !.retryTimers = Elapsed(@, REGISTER_RETRY_DELAY)]
    /\ UNCHANGED <<connVars, histVars, routeVars, obsVars, now, lastMessageTime,
                   received, popupVars, lastAction>>

\* Duolingo changes the page, which then shows question q (0: none): the
\* MutationObserver's callback arms its debounce timer.
PageChanges(q) ==
    /\ page.changes < MaxChanges
    /\ Pending(page.observerTimers) < MaxPending
    /\ page' = [page EXCEPT !.shown = q, !.changes = @ + 1,
                            !.observerTimers.armed = @ + 1]
    /\ UNCHANGED <<connVars, histVars, routeVars, obsVars, now, lastMessageTime,
                   received, popupVars, lastAction>>

\* A debounce timer of the observer fires.
ObserverRuns ==
    /\ page.observerTimers.due > 0
    /\ LET p == observerCallback([page EXCEPT !.observerTimers.due = @ - 1])
       IN /\ p.registerPromises <= MaxPending
          /\ page' = p
    /\ UNCHANGED <<connVars, histVars, routeVars, obsVars, now, lastMessageTime,
                   received, popupVars, lastAction>>

\* The promise of registerActions' sendMessage settles: fulfilled, a silent
\* context message follows; rejected, the retry is put on a timer.
RegisterSettles(fulfilled) ==
    /\ page.registerPromises > 0
    /\ ~fulfilled => Pending(page.retryTimers) < MaxPending
    /\ page' = [page EXCEPT !.registerPromises = @ - 1,
                            !.retryTimers.armed = IF fulfilled THEN @ ELSE @ + 1]
    /\ UNCHANGED <<connVars, histVars, routeVars, obsVars, now, lastMessageTime,
                   received, popupVars, lastAction>>

\* The retry timer of registerActions fires: the message is sent again.
RetryRuns ==
    /\ page.retryTimers.due > 0
    /\ page' = SendRegister([page EXCEPT !.retryTimers.due = @ - 1])
    /\ UNCHANGED <<connVars, histVars, routeVars, obsVars, now, lastMessageTime,
                   received, popupVars, lastAction>>

\* A neuro_action message reaches the content script.
NeuroAction(name, data, contextType, matched, button) ==
    /\ LET r == onNeuroAction(page, name, data, contextType, button)
       IN /\ page' = r.p
          /\ lastAction' = [name |-> name, data |-> data,
                            contextType |-> contextType, matched |-> matched,
                            button |-> button, results |-> r.results]
    /\ UNCHANGED <<connVars, histVars, routeVars, obsVars, now, lastMessageTime,
                   received, popupVars>>

\* A submit_answer action with an answer reaches the content script.
SubmitAnswer(contextType, button) ==
    /\ page' = submit_answer(page, "answer", contextType, button).p
    /\ UNCHANGED <<connVars, histVars, routeVars, obsVars, now, lastMessageTime,
                   received, popupVars, lastAction>>

PageNext ==
    \/ PageTick
    \/ \E q \in 0..MaxQuestions : PageChanges(q)
    \/ ObserverRuns
    \/ \E fulfilled \in BOOLEAN : RegisterSettles(fulfilled)
    \/ RetryRuns
    \/ \E contextType \in ContextTypes, button \in BOOLEAN :
            SubmitAnswer(contextType, button)

ActionNext ==
    \/ PageTick
    \/ \E name \in SupportedNames \cup {"unknown_action"}, data \in DataKinds,
          contextType \in ContextTypes, matched \in BOOLEAN, button \in BOOLEAN :
            NeuroAction(name, data, contextType, matched, button)

SpecAction == Init /\ [][ActionNext]_vars

SpecPage == Init /\ [][PageNext]_vars

\* Timers fire, promises settle and time passes.
SpecPageLive ==
    /\ Init /\ [][PageNext]_vars
    /\ WF_vars(PageTick)
    /\ WF_vars(ObserverRuns)
    /\ WF_vars(RetryRuns)
    /\ WF_vars(\E fulfilled \in BOOLEAN : RegisterSettles(fulfilled))

\* C31: two neuro_register_actions messages are never sent less than
\* ACTION_REGISTRATION_THRESHOLD ms apart, whatever becomes of the send.
C31_RegistrationsSpaced ==
    [][page'.sent.register # page.sent.register
          => page.registerSentAge >= ACTION_REGISTRATION_THRESHOLD]_vars

\* C32: a new-question context message is sent neither within
\* ANSWER_COOLDOWN_PERIOD ms after submit_answer clicked the submit button
\* nor CONTEXT_CHANGE_THRESHOLD ms or less after the previous one.
C32_ContextHeldBack ==
    [][page'.sent.question # page.sent.question
          => /\ page.submitAge >= ANSWER_COOLDOWN_PERIOD
             /\ page.contextSentAge > CONTEXT_CHANGE_THRESHOLD]_vars

\* C32 witness: the second new-question context has just been sent,
\* ANSWER_COOLDOWN_PERIOD ms after submit_answer clicked the submit button.
C32_Witness ==
    /\ page.sent.question = 2
    /\ page.contextSentAge = 0
    /\ page.submitAge = ANSWER_COOLDOWN_PERIOD

\* C37: when the page has come to show a question and changes no more, the
\* context of that question is eventually sent, which makes its hash the
\* last one sent.
C37_ShownQuestionSent ==
    \A q \in Questions : \A k \in 0..MaxChanges :
        <>[](page.shown = q /\ page.changes = k) => <>(page.lastQuestionHash = q)

\* C34: a neuro_action message with a supported name makes the content
\* script send exactly one neuro_action_result message.
C34_OneResultPerAction ==
    lastAction.name \in SupportedNames => Len(lastAction.results) = 1

\* C35: the result of submit_answer says success exactly when the answer
\* was put into the page and the submit button was found and clicked.
C35_SuccessMeansSubmitted ==
    (lastAction.name = "submit_answer" /\ Len(lastAction.results) = 1)
        => (lastAction.results[1]
               <=> /\ lastAction.data = "answer"
                   /\ Applied(lastAction.contextType, lastAction.matched)
                   /\ lastAction.button)

\* C38: given the same popup connects, disconnects and addLogEntry calls,
\* the PopupManager class and the object literal of createPopupManager hold
\* the same logCache and the same isPopupOpen, and their last addLogEntry
\* delivered new_log to the same popups.
C38_ManagersAgree ==
    /\ classPopup.logCache = popup.logCache
    /\ classPopup.isPopupOpen = popup.isPopupOpen
    /\ newLog.class = newLog.literal

====
